---------------------------- MODULE Spec2Model ----------------------------
(***************************************************************************)
(* Model of astroutils: src/python/utils/math.py (norm, unit_vector,       *)
(* angle_between_vectors_rad/deg) and src/python/eclipse.py                *)
(* (check_object_umbra_penumba, check_eclipse).                            *)
(*                                                                         *)
(* NumPy float64 arithmetic is modelled by a binary floating-point format  *)
(* of the same structure as IEEE-754 binary64 but with Precision           *)
(* significand bits and exponents in EMin..EMax: round to nearest, ties    *)
(* to even, gradual underflow, overflow to infinity, NaN propagation, and  *)
(* division by zero giving inf/NaN (NumPy's default error state only       *)
(* warns).  The sign of zero is not modelled.                              *)
(*                                                                         *)
(* Angles are not stored as radians: the result of np.arctan is kept as    *)
(* its tangent and the result of np.arccos as its cosine, the trigonometric*)
(* functions applied to them afterwards are computed from that value.      *)
(***************************************************************************)
EXTENDS Integers, Sequences, FiniteSets, TLC

\* Bounds of the floating-point model
Precision == 12
EMax == 64
EMin == -EMax

Max(a, b) == IF a >= b THEN a ELSE b
Min(a, b) == IF a <= b THEN a ELSE b

RECURSIVE BitLen(_)
BitLen(n) == IF n = 0 THEN 0 ELSE 1 + BitLen(n \div 2)

RECURSIVE IsqrtBS(_, _, _)
\* largest r with r*r <= n, searched in lo..hi-1 (lo*lo <= n < hi*hi)
IsqrtBS(n, lo, hi) ==
    IF hi - lo <= 1 THEN lo
    ELSE LET mid == (lo + hi) \div 2
         IN IF mid * mid <= n THEN IsqrtBS(n, mid, hi) ELSE IsqrtBS(n, lo, mid)

Isqrt(n) == IsqrtBS(n, 0, 2^15)

----------------------------------------------------------------------------
\* float64 values

NaN == [c |-> "nan", s |-> 1, m |-> 0, e |-> 0]
Inf(s) == [c |-> "inf", s |-> s, m |-> 0, e |-> 0]
Zero == [c |-> "fin", s |-> 1, m |-> 0, e |-> 0]

IsNaN(a) == a.c = "nan"
IsInf(a) == a.c = "inf"
IsZero(a) == a.c = "fin" /\ a.m = 0
IsFinite(a) == a.c = "fin"

\* the float nearest to s * (n + f) * 2^e, where 0 <= f < 1 and sticky <=> f > 0
Round(s, n, e, sticky) ==
    IF n = 0 THEN Zero
    ELSE LET bits == BitLen(n)
             k == Max(bits - Precision, EMin - e)
         IN IF k <= 0
            THEN LET up == Min(Precision - bits, e - EMin)
                 IN IF e - up > EMax THEN Inf(s)
                    ELSE [c |-> "fin", s |-> s, m |-> n * 2^up, e |-> e - up]
            ELSE IF k > bits THEN Zero
            ELSE LET q == n \div 2^k
                     r == n % 2^k
                     half == 2^(k - 1)
                     rup == r > half \/ (r = half /\ (sticky \/ q % 2 = 1))
                     m1 == IF rup THEN q + 1 ELSE q
                     m2 == IF m1 = 2^Precision THEN 2^(Precision - 1) ELSE m1
                     e2 == IF m1 = 2^Precision THEN e + k + 1 ELSE e + k
                 IN IF m2 = 0 THEN Zero
                    ELSE IF e2 > EMax THEN Inf(s)
                    ELSE [c |-> "fin", s |-> s, m |-> m2, e |-> e2]

FromInt(i) == IF i < 0 THEN Round(-1, -i, 0, FALSE) ELSE Round(1, i, 0, FALSE)
\* i * 2^e
Scaled(i, e) == IF i < 0 THEN Round(-1, -i, e, FALSE) ELSE Round(1, i, e, FALSE)
One == FromInt(1)

FNeg(a) == IF IsNaN(a) \/ IsZero(a) THEN a ELSE [a EXCEPT !.s = -a.s]
FAbs(a) == IF IsNaN(a) THEN a ELSE [a EXCEPT !.s = 1]

FAdd(a, b) ==
    IF IsNaN(a) \/ IsNaN(b) THEN NaN
    ELSE IF IsInf(a) THEN (IF IsInf(b) /\ b.s # a.s THEN NaN ELSE a)
    ELSE IF IsInf(b) THEN b
    ELSE IF IsZero(a) THEN b
    ELSE IF IsZero(b) THEN a
    ELSE LET hi == IF a.e >= b.e THEN a ELSE b
             lo == IF a.e >= b.e THEN b ELSE a
             diff == hi.e - lo.e
         IN IF diff > Precision + 1 THEN hi
            ELSE LET n == hi.s * hi.m * 2^diff + lo.s * lo.m
                 IN IF n < 0 THEN Round(-1, -n, lo.e, FALSE)
                    ELSE Round(1, n, lo.e, FALSE)

FSub(a, b) == FAdd(a, FNeg(b))

FMul(a, b) ==
    IF IsNaN(a) \/ IsNaN(b) THEN NaN
    ELSE IF IsInf(a) \/ IsInf(b)
         THEN (IF IsZero(a) \/ IsZero(b) THEN NaN ELSE Inf(a.s * b.s))
    ELSE Round(a.s * b.s, a.m * b.m, a.e + b.e, FALSE)

\* np.true_divide on float64: x/0 is +-inf, 0/0 is nan (a RuntimeWarning only)
FDiv(a, b) ==
    IF IsNaN(a) \/ IsNaN(b) THEN NaN
    ELSE IF IsInf(a) THEN (IF IsInf(b) THEN NaN ELSE Inf(a.s * b.s))
    ELSE IF IsInf(b) THEN Zero
    ELSE IF IsZero(b) THEN (IF IsZero(a) THEN NaN ELSE Inf(a.s))
    ELSE IF IsZero(a) THEN Zero
    ELSE LET K == 2 * Precision + 1 - BitLen(a.m)
             n == a.m * 2^K
             q == n \div b.m
         IN Round(a.s * b.s, q, a.e - b.e - K, n % b.m # 0)

FSqrt(a) ==
    IF IsNaN(a) THEN NaN
    ELSE IF IsZero(a) THEN Zero
    ELSE IF a.s < 0 THEN NaN
    ELSE IF IsInf(a) THEN a
    ELSE LET K0 == 2 * Precision + 2 - BitLen(a.m)
             K == IF (a.e - K0) % 2 = 0 THEN K0 ELSE K0 + 1
             n == a.m * 2^K
             r == Isqrt(n)
         IN Round(1, r, (a.e - K) \div 2, r * r # n)

\* comparisons: any comparison with NaN is False
FLt(a, b) ==
    IF IsNaN(a) \/ IsNaN(b) THEN FALSE
    ELSE IF a = b THEN FALSE
    ELSE IF IsInf(a) THEN a.s < 0
    ELSE IF IsInf(b) THEN b.s > 0
    ELSE LET d == FSub(a, b) IN d.s < 0 /\ ~IsZero(d)

FLe(a, b) == ~IsNaN(a) /\ ~IsNaN(b) /\ (a = b \/ FLt(a, b))

----------------------------------------------------------------------------
\* ndarray values: 3-component vectors of float64

Vec(x, y, z) == <<FromInt(x), FromInt(y), FromInt(z)>>
ZeroVec == <<Zero, Zero, Zero>>

\* unary minus on an ndarray: a new array
VNeg(v) == <<FNeg(v[1]), FNeg(v[2]), FNeg(v[3])>>

\* np.dot(a, b), and np.sum(a * b, axis=0)
dot(a, b) == FAdd(FAdd(FMul(a[1], b[1]), FMul(a[2], b[2])), FMul(a[3], b[3]))

\* np.linalg.norm(x): sqrt of the sum of the squared components
norm(x) == FSqrt(dot(x, x))

\* Python's float division would raise ZeroDivisionError on a zero divisor
py_divide(a, b) == [raised |-> IsZero(b), val |-> FDiv(a, b)]

\* a scalar divided by a np.float64: never raises
true_divide(a, b) == [raised |-> FALSE, val |-> FDiv(a, b)]

\* angles: np.arctan keeps the tangent, np.arccos keeps the cosine
arctan(t) == [rep |-> "tan", unit |-> "rad", v |-> t]
arccos(c) == [rep |-> "cos", unit |-> "rad",
              v |-> IF IsNaN(c) \/ FLt(One, FAbs(c)) THEN NaN ELSE c]
rad2deg(a) == [a EXCEPT !.unit = "deg"]
UnsetAngle == [rep |-> "none", unit |-> "rad", v |-> NaN]

\* tan of the float64 nearest to pi/2 is large and finite
TanHalfPi == Scaled(1, 2 * Precision)

np_tan(a) == IF IsInf(a.v) THEN [TanHalfPi EXCEPT !.s = a.v.s] ELSE a.v

np_sin(a) ==
    IF a.rep = "tan"
    THEN IF IsNaN(a.v) THEN NaN
         ELSE IF IsInf(a.v) \/ FLt(Scaled(1, Precision), FAbs(a.v))
              THEN [One EXCEPT !.s = a.v.s]
         ELSE FDiv(a.v, FSqrt(FAdd(One, FMul(a.v, a.v))))
    ELSE FSqrt(FSub(One, FMul(a.v, a.v)))

np_cos(a) == a.v

----------------------------------------------------------------------------
\* constants module (utils/constants.py)
earth_radius_km == FDiv(FromInt(6378137), FromInt(1000))
sun_radius_km == FromInt(695700)

----------------------------------------------------------------------------
\* arguments: a reference to a caller's array, or a temporary array
Ref(r) == [ref |-> r, val |-> ZeroVec]
Tmp(v) == [ref |-> "tmp", val |-> v]
Deref(arrs, x) == IF x.ref = "tmp" THEN x.val ELSE arrs[x.ref]

\* v / n, component by component
vdiv(v, n) == <<FDiv(v[1], n), FDiv(v[2], n), FDiv(v[3], n)>>

store_result(arrs, x, r) ==
    [out |-> r.out, nrm |-> r.nrm,
     arrays |-> IF x.ref = "tmp" THEN arrs ELSE [arrs EXCEPT ![x.ref] = r.out]]

\* x /= norm(x): the caller's array is overwritten
unit_vector_inplace(arrs, x) ==
    store_result(arrs, x, [out |-> vdiv(Deref(arrs, x), norm(Deref(arrs, x))),
                           nrm |-> norm(Deref(arrs, x))])

\* unit_vector(x) = x / np.linalg.norm(x, axis=0): a new array
unit_vector(arrs, x) ==
    [out |-> vdiv(Deref(arrs, x), norm(Deref(arrs, x))), nrm |-> norm(Deref(arrs, x)),
     arrays |-> arrs]

sum_of_products(ua, ub) ==
    [arg |-> dot(ua.out, ub.out), nrm_a |-> ua.nrm, nrm_b |-> ub.nrm,
     arrays |-> ub.arrays]

second_unit_vector(ua, b) == sum_of_products(ua, unit_vector(ua.arrays, b))

\* np.sum(unit_vector(a) * unit_vector(b), axis=0): the argument handed to
\* np.arccos, with the norms divided by and the arrays afterwards
acos_argument(arrs, a, b) == second_unit_vector(unit_vector(arrs, a), b)

with_arccos(r) ==
    [out |-> arccos(r.arg), arg |-> r.arg, nrm_a |-> r.nrm_a, nrm_b |-> r.nrm_b,
     arrays |-> r.arrays]

angle_between_vectors_rad(arrs, a, b) == with_arccos(acos_argument(arrs, a, b))

with_rad2deg(r) == [r EXCEPT !.out = rad2deg(r.out)]

angle_between_vectors_deg(arrs, a, b) ==
    with_rad2deg(with_arccos(acos_argument(arrs, a, b)))

----------------------------------------------------------------------------
\* the statements of check_object_umbra_penumba and check_eclipse

\* eclipse.py 9: umbra_angle
arctan_of(q) == [raised |-> q.raised, val |-> arctan(q.val)]

umbra_angle_of(earth_sun_distance) ==
    arctan_of(true_divide(FSub(sun_radius_km, earth_radius_km), earth_sun_distance))

\* eclipse.py 10: penumbra_angle
penumbra_angle_of(earth_sun_distance) ==
    arctan_of(true_divide(FAdd(sun_radius_km, earth_radius_km), earth_sun_distance))

dot_positive(b, s) == FLt(Zero, dot(b, s))

\* eclipse.py 15: the guard of the shadow branch
dot_negative(b, s) == FLt(dot(b, s), Zero)

\* eclipse.py 19-20
penvert_from(x, penumbra_angle, sathoriz) ==
    [raised |-> x.raised, x |-> x.val,
     val |-> FMul(np_tan(penumbra_angle), FAdd(x.val, sathoriz))]

penvert_of(penumbra_angle, sathoriz) ==
    penvert_from(true_divide(earth_radius_km, np_sin(penumbra_angle)),
                 penumbra_angle, sathoriz)

outside_penumbra(satvert, penvert) == FLe(penvert, satvert)

\* eclipse.py 21
within_penumbra(satvert, penvert) == FLe(satvert, penvert)

umbvert_from(y, umbra_angle, sathoriz) ==
    [raised |-> y.raised, y |-> y.val,
     val |-> FMul(np_tan(umbra_angle), FSub(y.val, sathoriz))]

\* eclipse.py 23-24
umbvert_of(umbra_angle, sathoriz) ==
    umbvert_from(true_divide(earth_radius_km, np_sin(umbra_angle)),
                 umbra_angle, sathoriz)

\* eclipse.py 25
within_umbra(satvert, umbvert) == FLe(satvert, umbvert)

return_swapped(in_penumbra, in_umbra) == <<in_umbra, in_penumbra>>

\* eclipse.py 28
return_pair(in_penumbra, in_umbra) == <<in_penumbra, in_umbra>>

sun_not_negated(v) == v

\* eclipse.py 31: the Sun vector handed on by check_eclipse
negated_sun(v) == VNeg(v)

eclipse_and(in_penumbra, in_umbra) == in_penumbra /\ in_umbra

\* eclipse.py 32-34
eclipse_result(in_penumbra, in_umbra) == IF in_penumbra \/ in_umbra THEN TRUE ELSE FALSE

\* the functions as single evaluations on array values (no caller's array involved)

check_object_umbra_penumba(b, s) ==
    LET earth_sun_distance == norm(s)
        umbra_angle == umbra_angle_of(earth_sun_distance).val
        penumbra_angle == penumbra_angle_of(earth_sun_distance).val
        angle == angle_between_vectors_rad(<<>>, Tmp(VNeg(s)), Tmp(b)).out
        sathoriz == FMul(norm(b), np_cos(angle))
        satvert == FMul(norm(b), np_sin(angle))
        in_penumbra == dot_negative(b, s)
                         /\ within_penumbra(satvert, penvert_of(penumbra_angle, sathoriz).val)
        in_umbra == in_penumbra
                      /\ within_umbra(satvert, umbvert_of(umbra_angle, sathoriz).val)
    IN return_pair(in_penumbra, in_umbra)

check_eclipse(b, s) ==
    LET r == check_object_umbra_penumba(b, negated_sun(s))
    IN eclipse_result(r[1], r[2])

----------------------------------------------------------------------------
\* Bound on the number of concurrent callers
NThreads == 2
Threads == 1..NThreads

\* arrays: the caller's two ndarrays; arrays0: their contents when created;
\* th: each thread's call frame
VARIABLES arrays, arrays0, th

vars == <<arrays, arrays0, th>>

Unset == [c |-> "unset", s |-> 1, m |-> 0, e |-> 0]

Idle == [pc |-> "idle", fn |-> "none", obj |-> Ref("obj"), sun |-> Ref("sun"),
         earth_sun_distance |-> Unset, umbra_angle |-> UnsetAngle,
         penumbra_angle |-> UnsetAngle, in_umbra |-> FALSE, in_penumbra |-> FALSE,
         acos_arg |-> Unset, nrm_a |-> Unset, nrm_b |-> Unset, angle |-> UnsetAngle,
         sathoriz |-> Unset, satvert |-> Unset, penvert |-> Unset, umbvert |-> Unset,
         y |-> Unset, result |-> <<FALSE, FALSE>>, eclipse |-> FALSE,
         scalar |-> Unset, vec |-> ZeroVec]

\* positions (km) the callers pass
Tiny == Scaled(1, -50)
Huge == Scaled(1, 50)

Bodies ==
    { Vec(-42164, 0, 0), Vec(42164, 0, 0), Vec(-42164, 6400, 0), Vec(42164, 6400, 0),
      Vec(-42164, 42164, 0), Vec(42164, 42164, 0), Vec(0, 42164, 0), Vec(0, 0, 0),
      Vec(-24343, -24343, -24343), Vec(24343, 24343, 24343), Vec(-42164, -42164, 0),
      <<FNeg(Tiny), Zero, Zero>>, <<Tiny, Zero, Zero>> }

Suns ==
    { Vec(149600000, 0, 0), Vec(-149600000, 0, 0), Vec(0, 0, 0),
      Vec(86371000, 86371000, 86371000), Vec(106000000, 106000000, 0),
      Vec(0, 149600000, 0),
      <<Zero, Huge, Zero>>, <<Tiny, Zero, Zero>> }

ConcBodies == { Vec(-42164, 0, 0), Vec(42164, 6400, 0) }
ConcSuns == { Vec(149600000, 0, 0) }

Init ==
    /\ arrays \in [obj : Bodies, sun : Suns]
    /\ arrays0 = arrays
    /\ th = [t \in Threads |-> Idle]

InitConc ==
    /\ arrays \in [obj : ConcBodies, sun : ConcSuns]
    /\ arrays0 = arrays
    /\ th = [t \in Threads |-> Idle]

At(t, label) == th[t].pc = label

\* a caller calls check_object_umbra_penumba(obj, sun)
call_check_object_umbra_penumba(t) ==
    /\ At(t, "idle")
    /\ th' = [th EXCEPT ![t].pc = "L8", ![t].fn = "check_object_umbra_penumba"]
    /\ UNCHANGED <<arrays, arrays0>>

\* a caller calls check_eclipse(obj, sun)
call_check_eclipse(t) ==
    /\ At(t, "idle")
    /\ th' = [th EXCEPT ![t].pc = "L31", ![t].fn = "check_eclipse"]
    /\ UNCHANGED <<arrays, arrays0>>

\* a caller calls angle_between_vectors_rad(obj, sun)
call_angle_between_vectors_rad(t) ==
    /\ At(t, "idle")
    /\ th' = [th EXCEPT ![t].pc = "M12", ![t].fn = "angle_between_vectors_rad"]
    /\ UNCHANGED <<arrays, arrays0>>

\* a caller calls angle_between_vectors_deg(obj, sun)
call_angle_between_vectors_deg(t) ==
    /\ At(t, "idle")
    /\ th' = [th EXCEPT ![t].pc = "M16", ![t].fn = "angle_between_vectors_deg"]
    /\ UNCHANGED <<arrays, arrays0>>

\* a caller calls norm on one of its arrays
call_norm(t) ==
    /\ At(t, "idle")
    /\ \E a \in {"obj", "sun"} :
         th' = [th EXCEPT ![t].pc = "M4", ![t].fn = "norm", ![t].obj = Ref(a)]
    /\ UNCHANGED <<arrays, arrays0>>

\* a caller calls unit_vector on one of its arrays
call_unit_vector(t) ==
    /\ At(t, "idle")
    /\ \E a \in {"obj", "sun"} :
         th' = [th EXCEPT ![t].pc = "M8", ![t].fn = "unit_vector", ![t].obj = Ref(a)]
    /\ UNCHANGED <<arrays, arrays0>>

\* math.py 4
norm_M4(t) ==
    /\ At(t, "M4")
    /\ th' = [th EXCEPT ![t].scalar = norm(Deref(arrays, th[t].obj)), ![t].pc = "done"]
    /\ UNCHANGED <<arrays, arrays0>>

returns_vector(t, r) ==
    /\ th' = [th EXCEPT ![t].vec = r.out, ![t].nrm_a = r.nrm, ![t].pc = "done"]
    /\ arrays' = r.arrays

assigns_angle(t, r, next) ==
    /\ th' = [th EXCEPT ![t].angle = r.out, ![t].acos_arg = r.arg,
                        ![t].nrm_a = r.nrm_a, ![t].nrm_b = r.nrm_b, ![t].pc = next]
    /\ arrays' = r.arrays

\* math.py 8
unit_vector_M8(t) ==
    /\ At(t, "M8")
    /\ returns_vector(t, unit_vector(arrays, th[t].obj))
    /\ UNCHANGED arrays0

\* math.py 12
angle_between_vectors_rad_M12(t) ==
    /\ At(t, "M12")
    /\ assigns_angle(t, angle_between_vectors_rad(arrays, th[t].obj, th[t].sun), "done")
    /\ UNCHANGED arrays0

\* math.py 16
angle_between_vectors_deg_M16(t) ==
    /\ At(t, "M16")
    /\ assigns_angle(t, angle_between_vectors_deg(arrays, th[t].obj, th[t].sun), "done")
    /\ UNCHANGED arrays0

\* eclipse.py 31: check_eclipse calls the test with the negated Sun vector
check_eclipse_L31(t) ==
    /\ At(t, "L31")
    /\ th' = [th EXCEPT ![t].sun = Tmp(negated_sun(Deref(arrays, th[t].sun))),
                        ![t].pc = "L8"]
    /\ UNCHANGED <<arrays, arrays0>>

assigns_angles(t, d, ua, pa) ==
    th' = IF ua.raised \/ pa.raised
          THEN [th EXCEPT ![t].earth_sun_distance = d, ![t].pc = "raised"]
          ELSE [th EXCEPT ![t].earth_sun_distance = d,
                          ![t].umbra_angle = ua.val, ![t].penumbra_angle = pa.val,
                          ![t].in_umbra = FALSE, ![t].in_penumbra = FALSE,
                          ![t].pc = "L15"]

assigns_distance(t, d) == assigns_angles(t, d, umbra_angle_of(d), penumbra_angle_of(d))

assigns_components(t, n) ==
    th' = [th EXCEPT ![t].sathoriz = FMul(n, np_cos(th[t].angle)),
                     ![t].satvert = FMul(n, np_sin(th[t].angle)),
                     ![t].pc = "L19"]

tests_penumbra(t, p) ==
    th' = IF p.raised THEN [th EXCEPT ![t].pc = "raised"]
          ELSE IF within_penumbra(th[t].satvert, p.val)
          THEN [th EXCEPT ![t].penvert = p.val, ![t].in_penumbra = TRUE, ![t].pc = "L23"]
          ELSE [th EXCEPT ![t].penvert = p.val, ![t].pc = "L28"]

tests_umbra(t, u) ==
    th' = IF u.raised THEN [th EXCEPT ![t].pc = "raised"]
          ELSE [th EXCEPT ![t].y = u.y, ![t].umbvert = u.val,
                          ![t].in_umbra = within_umbra(th[t].satvert, u.val),
                          ![t].pc = "L28"]

\* eclipse.py 8-13
check_object_L8(t) ==
    /\ At(t, "L8")
    /\ assigns_distance(t, norm(Deref(arrays, th[t].sun)))
    /\ UNCHANGED <<arrays, arrays0>>

\* eclipse.py 15
check_object_L15(t) ==
    /\ At(t, "L15")
    /\ th' = [th EXCEPT ![t].pc =
                IF dot_negative(Deref(arrays, th[t].obj), Deref(arrays, th[t].sun))
                THEN "L16" ELSE "L28"]
    /\ UNCHANGED <<arrays, arrays0>>

\* eclipse.py 16
check_object_L16(t) ==
    /\ At(t, "L16")
    /\ assigns_angle(t, angle_between_vectors_rad(
                            arrays, Tmp(VNeg(Deref(arrays, th[t].sun))), th[t].obj),
                     "L17")
    /\ UNCHANGED arrays0

\* eclipse.py 17-18
check_object_L17(t) ==
    /\ At(t, "L17")
    /\ assigns_components(t, norm(Deref(arrays, th[t].obj)))
    /\ UNCHANGED <<arrays, arrays0>>

\* eclipse.py 19-22
check_object_L19(t) ==
    /\ At(t, "L19")
    /\ tests_penumbra(t, penvert_of(th[t].penumbra_angle, th[t].sathoriz))
    /\ UNCHANGED <<arrays, arrays0>>

\* eclipse.py 23-26
check_object_L23(t) ==
    /\ At(t, "L23")
    /\ tests_umbra(t, umbvert_of(th[t].umbra_angle, th[t].sathoriz))
    /\ UNCHANGED <<arrays, arrays0>>

\* eclipse.py 28
check_object_L28(t) ==
    /\ At(t, "L28")
    /\ th' = [th EXCEPT ![t].result = return_pair(th[t].in_penumbra, th[t].in_umbra),
                        ![t].pc = IF th[t].fn = "check_eclipse" THEN "L32" ELSE "done"]
    /\ UNCHANGED <<arrays, arrays0>>

\* eclipse.py 32-34
check_eclipse_L32(t) ==
    /\ At(t, "L32")
    /\ th' = [th EXCEPT ![t].eclipse = eclipse_result(th[t].result[1], th[t].result[2]),
                        ![t].pc = "done"]
    /\ UNCHANGED <<arrays, arrays0>>

Step(t) ==
    \/ call_check_object_umbra_penumba(t)
    \/ call_check_eclipse(t)
    \/ call_angle_between_vectors_rad(t)
    \/ call_angle_between_vectors_deg(t)
    \/ call_norm(t)
    \/ call_unit_vector(t)
    \/ norm_M4(t)
    \/ unit_vector_M8(t)
    \/ angle_between_vectors_rad_M12(t)
    \/ angle_between_vectors_deg_M16(t)
    \/ check_eclipse_L31(t)
    \/ check_object_L8(t)
    \/ check_object_L15(t)
    \/ check_object_L16(t)
    \/ check_object_L17(t)
    \/ check_object_L19(t)
    \/ check_object_L23(t)
    \/ check_object_L28(t)
    \/ check_eclipse_L32(t)

\* one caller
Next == Step(1)
Spec == Init /\ [][Next]_vars

\* NThreads callers sharing the two arrays, interleaved statement by statement
NextConc == \E t \in Threads : Step(t)
SpecConc == InitConc /\ [][NextConc]_vars

----------------------------------------------------------------------------
\* Properties

Done(t, f) == th[t].pc = "done" /\ th[t].fn = f
Body == arrays0.obj
Sun == arrays0.sun
SunAlongX == Vec(149600000, 0, 0)
IsPositiveFinite(a) == IsFinite(a) /\ ~IsZero(a) /\ a.s = 1

\* C1: whenever dot(bodyPos, sunPos) >= 0 (zero vectors included),
\* check_object_umbra_penumba returns (False, False).
C1_SunlitSideNoShadow ==
    \A t \in Threads :
        (Done(t, "check_object_umbra_penumba") /\ FLe(Zero, dot(Body, Sun)))
            => th[t].result = <<FALSE, FALSE>>

C1_Witness ==
    \E t \in Threads :
        /\ Done(t, "check_object_umbra_penumba")
        /\ Body = Vec(42164, 0, 0) /\ Sun = SunAlongX
        /\ th[t].result = <<FALSE, FALSE>>

\* C2: the returned pair never has in_umbra true with in_penumbra false.
C2_UmbraImpliesPenumbra ==
    \A t \in Threads :
        /\ th[t].in_umbra => th[t].in_penumbra
        /\ th[t].result[2] => th[t].result[1]

C2_Witness ==
    \E t \in Threads :
        Done(t, "check_object_umbra_penumba") /\ th[t].result = <<TRUE, TRUE>>

\* C3: check_eclipse(bodyPos, sunPos) is in_penumbra OR in_umbra of
\* check_object_umbra_penumba(bodyPos, -sunPos).
C3_EclipseIsOrOfNegatedSunTest ==
    \A t \in Threads :
        Done(t, "check_eclipse") =>
            /\ th[t].result = check_object_umbra_penumba(Body, VNeg(Sun))
            /\ th[t].eclipse = (th[t].result[1] \/ th[t].result[2])

C3_Witness ==
    \E t \in Threads :
        Done(t, "check_eclipse") /\ th[t].result = <<TRUE, FALSE>> /\ th[t].eclipse

\* v x w = 0: the two vectors lie on one line
Collinear(v, w) ==
    /\ FSub(FMul(v[2], w[3]), FMul(v[3], w[2])) = Zero
    /\ FSub(FMul(v[3], w[1]), FMul(v[1], w[3])) = Zero
    /\ FSub(FMul(v[1], w[2]), FMul(v[2], w[1])) = Zero

\* C4: a body on the anti-solar axis, nearer than the umbral apex distance
\* y = earth_radius_km / sin(umbra_angle), is reported in penumbra and in umbra.
C4_AntiSolarAxisInBothShadows ==
    \A t \in Threads :
        ( /\ Done(t, "check_object_umbra_penumba")
          /\ Collinear(Body, Sun) /\ FLt(dot(Body, Sun), Zero)
          /\ IsPositiveFinite(norm(Body)) /\ IsPositiveFinite(norm(Sun))
          /\ FLt(norm(Body), FDiv(earth_radius_km, np_sin(th[t].umbra_angle))) )
            => th[t].result = <<TRUE, TRUE>>

\* C5: behind Earth with satvert > penvert the result is (False, False) and the
\* umbra test is not evaluated.
C5_OutsidePenumbraNoShadow ==
    \A t \in Threads :
        ( /\ Done(t, "check_object_umbra_penumba")
          /\ FLt(dot(Body, Sun), Zero)
          /\ FLt(th[t].penvert, th[t].satvert) )
            => /\ th[t].result = <<FALSE, FALSE>>
               /\ th[t].umbvert = Unset
               /\ ~th[t].in_umbra

C5_Witness ==
    \E t \in Threads :
        /\ Done(t, "check_object_umbra_penumba")
        /\ Body = Vec(-42164, 42164, 0) /\ Sun = SunAlongX
        /\ FLt(th[t].penvert, th[t].satvert)
        /\ th[t].result = <<FALSE, FALSE>>

\* C6: for non-zero inputs the argument angle_between_vectors_rad/deg hands to
\* arccos lies in [-1, 1] and the angle is not NaN.
C6_AcosArgumentClamped ==
    \A t \in Threads :
        ( /\ Done(t, "angle_between_vectors_rad") \/ Done(t, "angle_between_vectors_deg")
          /\ IsPositiveFinite(th[t].nrm_a) /\ IsPositiveFinite(th[t].nrm_b) )
            => /\ FLe(FAbs(th[t].acos_arg), One)
               /\ ~IsNaN(th[t].angle.v)

\* the result a call returns when it runs alone on the arrays as passed
Alone(t) ==
    LET a == arrays0[th[t].obj.ref]
        b == arrays0[th[t].sun.ref]
        fn == th[t].fn
    IN CASE fn = "check_object_umbra_penumba" ->
              th[t].result = check_object_umbra_penumba(arrays0.obj, arrays0.sun)
         [] fn = "check_eclipse" ->
              th[t].eclipse = check_eclipse(arrays0.obj, arrays0.sun)
         [] fn = "angle_between_vectors_rad" ->
              th[t].angle = angle_between_vectors_rad(<<>>, Tmp(a), Tmp(b)).out
         [] fn = "angle_between_vectors_deg" ->
              th[t].angle = angle_between_vectors_deg(<<>>, Tmp(a), Tmp(b)).out
         [] fn = "norm" -> th[t].scalar = norm(a)
         [] fn = "unit_vector" -> th[t].vec = vdiv(a, norm(a))
         [] OTHER -> FALSE

\* C7: no call modifies the arrays it is given, and under any interleaving each
\* call returns what it returns when run alone on the same inputs.
C7_PureUnderInterleaving ==
    /\ arrays = arrays0
    /\ \A t \in Threads : th[t].pc = "done" => Alone(t)

C7_Witness ==
    \E t, u \in Threads :
        /\ t # u
        /\ Done(t, "check_object_umbra_penumba") /\ th[t].result = <<TRUE, TRUE>>
        /\ th[u].fn = "check_object_umbra_penumba" /\ th[u].pc = "L17"

\* C8: with sunPos the zero vector the division by the zero distance is carried
\* out at lines 9-10, before the inputs are looked at, and the call ends with a
\* value, never by raising.
C8_ZeroSunNoError ==
    \A t \in Threads :
        (th[t].fn = "check_object_umbra_penumba" /\ Sun = ZeroVec) =>
            /\ th[t].pc # "raised"
            /\ th[t].pc \notin {"idle", "L8"} =>
                 /\ th[t].earth_sun_distance = Zero
                 /\ ~IsFinite(th[t].umbra_angle.v)
                 /\ ~IsFinite(th[t].penumbra_angle.v)
            /\ th[t].pc = "done" => th[t].result = <<FALSE, FALSE>>

C8_Witness ==
    \E t \in Threads :
        /\ Done(t, "check_object_umbra_penumba") /\ Sun = ZeroVec
        /\ th[t].earth_sun_distance = Zero /\ IsInf(th[t].umbra_angle.v)
        /\ th[t].result = <<FALSE, FALSE>>

\* C9: check_eclipse returns False whenever dot(bodyPos, sunPos) <= 0, True only
\* when it is > 0: False for the body at (-42164,0,0) behind Earth, True for
\* the body at (42164,0,0) on the Sun's side (Sun at (1.496e8,0,0)).
C9_EclipseOnlyOnSunSide ==
    \A t \in Threads :
        Done(t, "check_eclipse") =>
            /\ th[t].eclipse => FLt(Zero, dot(Body, Sun))
            /\ FLe(dot(Body, Sun), Zero) => ~th[t].eclipse
            /\ (Body = Vec(-42164, 0, 0) /\ Sun = SunAlongX) => ~th[t].eclipse
            /\ (Body = Vec(42164, 0, 0) /\ Sun = SunAlongX) => th[t].eclipse

C9_Witness ==
    \E t \in Threads :
        /\ Done(t, "check_eclipse")
        /\ Body = Vec(42164, 0, 0) /\ Sun = SunAlongX
        /\ th[t].eclipse

\* C10: on the path through the shadow test unit_vector never divides by a
\* zero norm: when the angle is computed both vectors have a non-zero norm.
C10_NoZeroNormInShadowTest ==
    \A t \in Threads :
        ( /\ th[t].fn \in {"check_object_umbra_penumba", "check_eclipse"}
          /\ th[t].pc \in {"L17", "L19", "L23", "L28", "L32", "done"}
          /\ th[t].nrm_a # Unset )
            => ~IsZero(th[t].nrm_a) /\ ~IsZero(th[t].nrm_b)

=============================================================================
